---- MODULE Spec2Model ----
(***************************************************************************)
(* Enhanced Thermostat (custom_components/enhanced_thermostat).            *)
(*                                                                         *)
(* Five specifications over one set of variables:                          *)
(*   SpecSchedule  the Schedule class (schedule.py) driven through its     *)
(*                 methods set_override and get_current_setpoint;          *)
(*   SpecGuard     EnhancedThermostat._async_check_safety_temp invoked     *)
(*                 on a stored state snapshot;                             *)
(*   SpecStore     the Store class (store.py) driven through async_save    *)
(*                 and async_load, on a file that can be damaged;          *)
(*   Spec          the entity as Home Assistant drives it: the state       *)
(*                 change callback, the one-minute timer and the two       *)
(*                 public service handlers;                                *)
(*   SpecLedger    the entity driven by state changes alone, with the log  *)
(*                 of the snapshots delivered.                             *)
(*                                                                         *)
(* Units: temperatures are in tenths of a degree, instants are whole       *)
(* hours counted from Monday 00:00, times of day are minutes since         *)
(* midnight.                                                               *)
(***************************************************************************)
EXTENDS Integers, Sequences, FiniteSets, TLC

VARIABLES
    safety_min_temp,        \* self._safety_min_temp (NoneNum when not configured)
    safety_max_temp,        \* self._safety_max_temp
    state,                  \* self._underlying_thermostat_state
    safety_active,          \* self._safety_active
    safety_triggered_mode,  \* self._safety_triggered_mode
    definition,             \* the schedule text handed to Schedule(...)
    schedule,               \* Schedule._schedule
    override_active,        \* Schedule._override_active
    override_until,         \* Schedule._override_until
    runtime_data,           \* self._runtime_data
    last_hvac_action,       \* self._last_hvac_action
    last_action_timestamp,  \* self._last_action_timestamp
    clock,                  \* the wall clock read by datetime.now()
    op,                     \* the handler or method that ran last, with its inputs
    raised,                 \* the exception that ended it ("none" when it returned)
    result,                 \* what get_current_setpoint returned in it
    commands,               \* climate service calls it issued, in order
    notifications,          \* messages it passed to _create_notification, in order
    discarded,              \* coroutine objects it created and never awaited
    steps,                  \* the calls of the state-change callback that returned, in order
    file,                   \* the contents of Store._storage_path
    store_data,             \* Store._data
    logged,                 \* what the Store method that ran last passed to _LOGGER
    observed                \* SpecLedger: the snapshots delivered so far, each with its instant

vars == <<safety_min_temp, safety_max_temp, state, safety_active,
          safety_triggered_mode, definition, schedule, override_active,
          override_until, runtime_data, last_hvac_action,
          last_action_timestamp, clock, op, raised, result, commands,
          notifications, discarded, steps, file, store_data, logged,
          observed>>

ledgerVars == <<runtime_data, last_hvac_action, last_action_timestamp>>

storeVars == <<file, store_data, logged>>

(***************************************************************************)
(* Bounds of the model.                                                    *)
(***************************************************************************)
TempLo == 139
MaxHours == 12
TempHi == 162
MaxNow == 47
MaxEvents == 2
OverrideGrid == 6
MaxClock == 25
MaxObserved == 3
MaxGap == 2

(***************************************************************************)
(* Python values.                                                          *)
(***************************************************************************)
\* None where a number (a temperature, an instant) is expected.
NoneNum == -1

HYSTERESIS_BUFFER == 10

HoursPerDay == 24

DayNames == <<"monday", "tuesday", "wednesday", "thursday", "friday",
              "saturday", "sunday">>

\* now.strftime("%A").lower()
DayName(now) == DayNames[((now \div HoursPerDay) % 7) + 1]

\* now.time()
TimeOfDay(now) == (now % HoursPerDay) * 60

(***************************************************************************)
(* datetime.strptime(time_str, "%H:%M").time().  A time string is the      *)
(* sequence of its characters.  %H is 2[0-3]|[0-1]\d|\d, %M is             *)
(* [0-5]\d|\d, and the whole string must be consumed; anything else raises *)
(* ValueError.                                                             *)
(***************************************************************************)
Digits == {"0", "1", "2", "3", "4", "5", "6", "7", "8", "9"}

DigitVal(c) ==
    CASE c = "0" -> 0 [] c = "1" -> 1 [] c = "2" -> 2 [] c = "3" -> 3
      [] c = "4" -> 4 [] c = "5" -> 5 [] c = "6" -> 6 [] c = "7" -> 7
      [] c = "8" -> 8 [] c = "9" -> 9 [] OTHER -> 0

AllDigits(s) == \A i \in 1..Len(s) : s[i] \in Digits

NumVal(s) == IF Len(s) = 1 THEN DigitVal(s[1])
             ELSE 10 * DigitVal(s[1]) + DigitVal(s[2])

ParseFailed == [ok |-> FALSE, minutes |-> 0]

ParseTime(time_str) ==
    LET colons == {i \in 1..Len(time_str) : time_str[i] = ":"} IN
    IF Cardinality(colons) # 1 THEN ParseFailed
    ELSE LET c == CHOOSE i \in colons : TRUE
             h == SubSeq(time_str, 1, c - 1)
             m == SubSeq(time_str, c + 1, Len(time_str))
         IN IF /\ Len(h) \in {1, 2} /\ AllDigits(h) /\ NumVal(h) <= 23
               /\ Len(m) \in {1, 2} /\ AllDigits(m) /\ NumVal(m) <= 59
            THEN [ok |-> TRUE, minutes |-> NumVal(h) * 60 + NumVal(m)]
            ELSE ParseFailed

(***************************************************************************)
(* Schedule definitions.  yaml.safe_load is outside the repository: a      *)
(* definition text is modelled by what it loads to.  An event, a weekday's *)
(* value and the top level each carry their Python type.                   *)
(***************************************************************************)
T0600 == <<"0", "6", ":", "0", "0">>
T2200 == <<"2", "2", ":", "0", "0">>
T6am == <<"6", "a", "m">>

Event(time, temperature, hvac_mode) ==
    [kind |-> "dict", hasTime |-> TRUE, time |-> time,
     temperature |-> temperature, hvac_mode |-> hvac_mode]

\* A mapping without the "time" key.
EventNoTime == [kind |-> "dict", hasTime |-> FALSE, time |-> <<>>,
                temperature |-> 190, hvac_mode |-> "None"]

\* An event that is not a mapping (a bare string or number).
EventScalar == [kind |-> "scalar", hasTime |-> FALSE, time |-> <<>>,
                temperature |-> NoneNum, hvac_mode |-> "None"]

\* Python's None where get_current_setpoint returns no event.
NoneEvent == [kind |-> "None", hasTime |-> FALSE, time |-> <<>>,
              temperature |-> NoneNum, hvac_mode |-> "None"]

E0600 == Event(T0600, 200, "None")
E2200 == Event(T2200, 170, "None")
E6am == Event(T6am, 180, "None")

EventCatalogue == {E0600, E2200, E6am, EventNoTime, EventScalar}

SeqsUpTo(S, n) == UNION {[1..k -> S] : k \in 0..n}

DayList(events) == [isList |-> TRUE, events |-> events]

DayNotAList == [isList |-> FALSE, events |-> <<>>]

DayValues == {DayList(s) : s \in SeqsUpTo(EventCatalogue, MaxEvents)}
                 \cup {DayNotAList}

\* text: "None" (no schedule configured, or the empty string), "malformed"
\* (yaml.safe_load raises YAMLError) or "yaml" (it loads to the value).
Yaml(days) == [text |-> "yaml", isDict |-> TRUE, days |-> days]

NoDefinition == [text |-> "None", isDict |-> FALSE, days |-> <<>>]

MalformedYaml == [text |-> "malformed", isDict |-> FALSE, days |-> <<>>]

NotADict == [text |-> "yaml", isDict |-> FALSE, days |-> <<>>]

EmptyDict == Yaml(<<>>)

Definitions ==
    {NoDefinition, MalformedYaml, NotADict, EmptyDict,
     Yaml("tuesday" :> DayList(<<E0600>>)),
     Yaml("monday" :> DayList(<<E2200, E0600>>) @@ "tuesday" :> DayList(<<E6am>>))}
        \cup {Yaml("monday" :> dv) : dv \in DayValues}

(***************************************************************************)
(* schedule.py                                                             *)
(***************************************************************************)
\* self._schedule is None
NoSchedule == [installed |-> FALSE, days |-> <<>>]

Installed(days) == [installed |-> TRUE, days |-> days]

EventInvalid(event) == event.kind # "dict" \/ ~event.hasTime

\* Schedule._parse_schedule
ParseSchedule(schedule_yaml) ==
    IF schedule_yaml.text = "None" THEN NoSchedule
    ELSE IF schedule_yaml.text = "malformed" THEN NoSchedule
    ELSE IF ~schedule_yaml.isDict THEN NoSchedule
    ELSE IF \E day \in DOMAIN schedule_yaml.days :
               \/ ~schedule_yaml.days[day].isList
               \/ \E i \in 1..Len(schedule_yaml.days[day].events) :
                     EventInvalid(schedule_yaml.days[day].events[i])
         THEN NoSchedule
    ELSE Installed([day \in DOMAIN schedule_yaml.days |->
                        schedule_yaml.days[day].events])

\* `not self._schedule`: None or the empty dict
ScheduleFalsy(sched) == ~sched.installed \/ DOMAIN sched.days = {}

Key(event) == ParseTime(event.time).minutes

\* sorted(events, key=...): a stable sort, here by insertion.
RECURSIVE InsertSorted(_, _)
InsertSorted(sorted, event) ==
    IF sorted = <<>> THEN <<event>>
    ELSE IF Key(event) < Key(Head(sorted)) THEN <<event>> \o sorted
    ELSE <<Head(sorted)>> \o InsertSorted(Tail(sorted), event)

SortedEvents_aslisted(events) == events

RECURSIVE SortedEvents(_)
SortedEvents(events) ==
    IF events = <<>> THEN <<>>
    ELSE InsertSorted(SortedEvents(SubSeq(events, 1, Len(events) - 1)),
                      events[Len(events)])

\* The for loop of get_current_setpoint over the sorted events.
RECURSIVE ScanEvents(_, _, _)
ScanEvents(events, tod, current_event) ==
    IF events = <<>> THEN current_event
    ELSE IF Key(Head(events)) <= tod
         THEN ScanEvents(Tail(events), tod, Head(events))
    ELSE current_event

OverrideInForce_expired(active, until, now) ==
    active /\ until # NoneNum /\ now > until

OverrideInForce(active, until, now) == active /\ until # NoneNum /\ now < until

Returned(event, active, until) ==
    [raised |-> "none", result |-> event, override_active |-> active,
     override_until |-> until]

Raised(exception, active, until) ==
    [raised |-> exception, result |-> NoneEvent, override_active |-> active,
     override_until |-> until]

\* Schedule.get_current_setpoint: what it returns or raises, and the
\* override fields it leaves.
GetCurrentSetpoint(sched, active, until, now) ==
    IF ScheduleFalsy(sched) THEN Returned(NoneEvent, active, until)
    ELSE IF OverrideInForce(active, until, now)
         THEN Returned(NoneEvent, active, until)
    ELSE IF DayName(now) \notin DOMAIN sched.days
         THEN Returned(NoneEvent, FALSE, NoneNum)
    ELSE LET events == sched.days[DayName(now)] IN
         IF \E i \in 1..Len(events) : ~ParseTime(events[i].time).ok
         THEN Raised("ValueError", FALSE, NoneNum)
         ELSE Returned(ScanEvents(SortedEvents(events), TimeOfDay(now), NoneEvent),
                       FALSE, NoneNum)

\* Schedule.set_override
SetOverrideFields(until) == [override_active |-> TRUE, override_until |-> until]

(***************************************************************************)
(* store.py: the file behind a Store and the json module.  A file is the   *)
(* sequence of its lexemes: the punctuation of JSON, a quotation mark, the *)
(* characters between two quotation marks taken together, one digit, or a  *)
(* byte that is not UTF-8.  A dict is a function on its keys, {} is <<>>.  *)
(***************************************************************************)
MissingFile == [exists |-> FALSE, text |-> <<>>]

FileOf(text) == [exists |-> TRUE, text |-> text]

\* A byte no UTF-8 text contains.
BadByte == "\\xff"

DigitOf(n) == CHOOSE c \in Digits : DigitVal(c) = n

\* json.dump of a number: its decimal digits.
RECURSIVE JsonNumber(_)
JsonNumber(n) ==
    IF n < 10 THEN <<DigitOf(n)>>
    ELSE JsonNumber(n \div 10) \o <<DigitOf(n % 10)>>

\* json.dump of a str
JsonString(str) == <<"\"", str, "\"">>

\* json.dump of {"heating_hours": h, "cooling_hours": c}
JsonHours(hours) ==
    <<"{">> \o JsonString("heating_hours") \o <<":">>
            \o JsonNumber(hours.heating_hours) \o <<",">>
            \o JsonString("cooling_hours") \o <<":">>
            \o JsonNumber(hours.cooling_hours) \o <<"}">>

RECURSIVE JsonItems(_, _)
JsonItems(data, keys) ==
    IF keys = {} THEN <<>>
    ELSE LET key == CHOOSE k \in keys : TRUE
         IN JsonString(key) \o <<":">> \o JsonHours(data[key])
                \o (IF keys = {key} THEN <<>> ELSE <<",">>)
                \o JsonItems(data, keys \ {key})

\* json.dump(self._data, f) for the dict _async_update_runtime keeps
JsonDump(data) == <<"{">> \o JsonItems(data, DOMAIN data) \o <<"}">>

JsonFailed == [ok |-> FALSE, next |-> 0, value |-> <<>>]

\* The number a run of digits denotes.
RECURSIVE DecimalVal(_)
DecimalVal(digits) ==
    IF digits = <<>> THEN 0
    ELSE 10 * DecimalVal(SubSeq(digits, 1, Len(digits) - 1))
             + DigitVal(digits[Len(digits)])

\* The end of the number that starts at text[i]: a 0 stands alone.
RECURSIVE NumberEnd(_, _)
NumberEnd(text, i) ==
    IF i > Len(text) \/ text[i] \notin Digits THEN i
    ELSE NumberEnd(text, i + 1)

\* json.JSONDecoder: the value that starts at text[i] and the index after
\* it.  In an object the last of two equal keys wins.
RECURSIVE JsonValue(_, _)
RECURSIVE JsonPairs(_, _, _)
JsonValue(text, i) ==
    IF i > Len(text) THEN JsonFailed
    ELSE IF text[i] \in Digits
    THEN LET end == IF text[i] = "0" THEN i + 1 ELSE NumberEnd(text, i)
         IN [ok |-> TRUE, next |-> end,
             value |-> DecimalVal(SubSeq(text, i, end - 1))]
    ELSE IF text[i] = "{"
    THEN IF i < Len(text) /\ text[i + 1] = "}"
         THEN [ok |-> TRUE, next |-> i + 2, value |-> <<>>]
         ELSE JsonPairs(text, i + 1, <<>>)
    ELSE JsonFailed

JsonPairs(text, i, members) ==
    IF \/ i + 3 > Len(text)
       \/ text[i] # "\"" \/ text[i + 2] # "\"" \/ text[i + 3] # ":"
    THEN JsonFailed
    ELSE LET v == JsonValue(text, i + 4) IN
         IF ~v.ok \/ v.next > Len(text) THEN JsonFailed
         ELSE LET dict == (text[i + 1] :> v.value) @@ members IN
              IF text[v.next] = "}"
              THEN [ok |-> TRUE, next |-> v.next + 1, value |-> dict]
              ELSE IF text[v.next] = ","
              THEN JsonPairs(text, v.next + 1, dict)
              ELSE JsonFailed

\* with open(path, "r") as f: json.load(f)
JsonLoad(f) ==
    IF ~f.exists THEN [raised |-> "FileNotFoundError", value |-> <<>>]
    ELSE IF \E i \in 1..Len(f.text) : f.text[i] = BadByte
    THEN [raised |-> "UnicodeDecodeError", value |-> <<>>]
    ELSE LET v == JsonValue(f.text, 1) IN
         IF v.ok /\ v.next = Len(f.text) + 1
         THEN [raised |-> "none", value |-> v.value]
         ELSE [raised |-> "JSONDecodeError", value |-> <<>>]

\* Store.async_load
AsyncLoad(f, data) ==
    LET loaded == JsonLoad(f) IN
    IF loaded.raised = "none"
    THEN [raised |-> "none", data |-> loaded.value, logged |-> <<>>]
    ELSE IF loaded.raised \in {"FileNotFoundError", "JSONDecodeError"}
    THEN [raised |-> "none", data |-> <<>>, logged |-> <<"debug">>]
    ELSE [raised |-> loaded.raised, data |-> data, logged |-> <<>>]

\* What the file system does to one open(path, "w") and the writes that
\* follow it: all of the text is written, open raises OSError, or a write
\* raises OSError once the first written lexemes of the text are in the
\* file.
WriteOutcome(kind, written) == [kind |-> kind, written |-> written]

\* Store.async_save.  IOError is OSError.
AsyncSave(data, f, outcome) ==
    LET text == JsonDump(data) IN
    IF outcome.kind = "written"
    THEN [raised |-> "none", data |-> data, file |-> FileOf(text),
          logged |-> <<>>]
    ELSE IF outcome.kind = "open_fails"
    THEN [raised |-> "none", data |-> data, file |-> f,
          logged |-> <<"error">>]
    ELSE [raised |-> "none", data |-> data,
          file |-> FileOf(SubSeq(text, 1, outcome.written)),
          logged |-> <<"error">>]

(***************************************************************************)
(* The record of the last operation.                                       *)
(***************************************************************************)
Op(name, now, temperature, hvac_mode) ==
    [name |-> name, now |-> now, temperature |-> temperature,
     hvac_mode |-> hvac_mode]

NoOp == Op("init", NoneNum, NoneNum, "None")

\* self._underlying_thermostat_state is None
NoState == [present |-> FALSE, hvac_mode |-> "None",
            current_temperature |-> NoneNum, temperature |-> NoneNum,
            hvac_action |-> "None"]

(***************************************************************************)
(* SpecSchedule: a Schedule object built from a definition, then any       *)
(* sequence of set_override(until) and get_current_setpoint(now).          *)
(***************************************************************************)
InitSchedule ==
    /\ definition \in Definitions
    /\ schedule = ParseSchedule(definition)
    /\ override_active = FALSE
    /\ override_until = NoneNum
    /\ safety_min_temp = NoneNum
    /\ safety_max_temp = NoneNum
    /\ state = NoState
    /\ safety_active = FALSE
    /\ safety_triggered_mode = "None"
    /\ runtime_data = <<>>
    /\ last_hvac_action = "None"
    /\ last_action_timestamp = NoneNum
    /\ clock = 0
    /\ op = NoOp
    /\ raised = "none"
    /\ result = NoneEvent
    /\ commands = <<>>
    /\ notifications = <<>>
    /\ discarded = <<>>
    /\ steps = <<>>
    /\ file = MissingFile
    /\ store_data = <<>>
    /\ logged = <<>>
    /\ observed = <<>>

ScheduleSetOverride(until) ==
    /\ override_active' = SetOverrideFields(until).override_active
    /\ override_until' = SetOverrideFields(until).override_until
    /\ op' = Op("set_override", until, NoneNum, "None")
    /\ raised' = "none"
    /\ result' = NoneEvent
    /\ UNCHANGED <<safety_min_temp, safety_max_temp, state, safety_active,
                   safety_triggered_mode, definition, schedule, clock,
                   commands, notifications, discarded, ledgerVars, steps,
                   storeVars, observed>>

ScheduleGetCurrentSetpoint(now) ==
    \E r \in {GetCurrentSetpoint(schedule, override_active, override_until,
                                  now)} :
    /\ override_active' = r.override_active
    /\ override_until' = r.override_until
    /\ op' = Op("get_current_setpoint", now, NoneNum, "None")
    /\ raised' = r.raised
    /\ result' = r.result
    /\ UNCHANGED <<safety_min_temp, safety_max_temp, state, safety_active,
                   safety_triggered_mode, definition, schedule, clock,
                   commands, notifications, discarded, ledgerVars, steps,
                   storeVars, observed>>

\* The instants set_override is tried with: every OverrideGrid-th hour.
OverrideInstants == {u \in 0..(MaxNow + 1) : u % OverrideGrid = 0}

NextSchedule ==
    \/ \E until \in OverrideInstants : ScheduleSetOverride(until)
    \/ \E now \in 0..MaxNow : ScheduleGetCurrentSetpoint(now)

SpecSchedule == InitSchedule /\ [][NextSchedule]_vars

(***************************************************************************)
(* climate.py: the state snapshot and the properties read from it.         *)
(***************************************************************************)
State(hvac_mode, current_temperature, temperature, hvac_action) ==
    [present |-> TRUE, hvac_mode |-> hvac_mode,
     current_temperature |-> current_temperature,
     temperature |-> temperature, hvac_action |-> hvac_action]

HvacModes == {"off", "heat", "cool", "heat_cool"}

Snapshots ==
    {State(m, c, t, a) : m \in HvacModes,
                         c \in (TempLo..TempHi) \cup {NoneNum},
                         t \in {170, 200},
                         a \in {"idle", "heating", "cooling"}}

\* EnhancedThermostat.hvac_mode
HvacMode(st) == IF st.present THEN st.hvac_mode ELSE "off"

\* EnhancedThermostat.current_temperature
CurrentTemperature(st) == IF st.present THEN st.current_temperature ELSE NoneNum

\* EnhancedThermostat.target_temperature
TargetTemperature(st) == IF st.present THEN st.temperature ELSE NoneNum

\* A call of the climate service, or the coroutine object that would make it.
ServiceCall(service, hvac_mode, temperature) ==
    [service |-> service, hvac_mode |-> hvac_mode, temperature |-> temperature]

(***************************************************************************)
(* EnhancedThermostat._async_check_safety_temp.  async_set_hvac_mode and   *)
(* async_set_temperature are coroutine functions of this class; the guard  *)
(* calls them without await, which builds a coroutine object and runs none *)
(* of its body: no override is set and no service call is made.            *)
(***************************************************************************)
ManualOverrideDetected_never(hvac_mode, triggered_mode) == FALSE

ManualOverrideDetected(hvac_mode, triggered_mode) == hvac_mode # triggered_mode

HeatRecovered_nobuffer(current_temperature, min_temp) ==
    current_temperature >= min_temp

HeatRecovered(current_temperature, min_temp) ==
    current_temperature >= min_temp + HYSTERESIS_BUFFER

CoolRecovered(current_temperature, max_temp) ==
    current_temperature <= max_temp - HYSTERESIS_BUFFER

\* An outcome that sets the flag and never records the mode.
GuardOutcome_mode_unset(active, triggered_mode, notes, coroutines) ==
    [safety_active |-> active, safety_triggered_mode |-> "None",
     notifications |-> notes, discarded |-> coroutines]

GuardOutcome(active, triggered_mode, notes, coroutines) ==
    [safety_active |-> active, safety_triggered_mode |-> triggered_mode,
     notifications |-> notes, discarded |-> coroutines]

CheckSafetyTemp(st, active, triggered_mode, min_temp, max_temp) ==
    LET mode == HvacMode(st)
        cur == CurrentTemperature(st)
    IN
    IF mode = "None" \/ cur = NoneNum
    THEN GuardOutcome(active, triggered_mode, <<>>, <<>>)
    ELSE IF active
    THEN IF ManualOverrideDetected(mode, triggered_mode)
         THEN GuardOutcome(FALSE, "None", <<"manual_override">>, <<>>)
         ELSE IF triggered_mode = "heat" /\ HeatRecovered(cur, min_temp)
         THEN GuardOutcome(FALSE, "None", <<"heating_off">>,
                           <<ServiceCall("set_hvac_mode", "off", NoneNum)>>)
         ELSE IF triggered_mode = "cool" /\ CoolRecovered(cur, max_temp)
         THEN GuardOutcome(FALSE, "None", <<"cooling_off">>,
                           <<ServiceCall("set_hvac_mode", "off", NoneNum)>>)
         ELSE GuardOutcome(active, triggered_mode, <<>>, <<>>)
    ELSE IF mode = "off"
    THEN IF min_temp # NoneNum /\ cur < min_temp
         THEN GuardOutcome(TRUE, "heat", <<"heating_activated">>,
                           <<ServiceCall("set_hvac_mode", "heat", NoneNum),
                             ServiceCall("set_temperature", "None", min_temp)>>)
         ELSE IF max_temp # NoneNum /\ cur > max_temp
         THEN GuardOutcome(TRUE, "cool", <<"cooling_activated">>,
                           <<ServiceCall("set_hvac_mode", "cool", NoneNum),
                             ServiceCall("set_temperature", "None", max_temp)>>)
         ELSE GuardOutcome(active, triggered_mode, <<>>, <<>>)
    ELSE GuardOutcome(active, triggered_mode, <<>>, <<>>)

(***************************************************************************)
(* SpecGuard: an entity built with any configured bounds; each step stores *)
(* a state snapshot and invokes _async_check_safety_temp.                  *)
(***************************************************************************)
MinBounds == {NoneNum, 150}

MaxBounds == {NoneNum, 145, 155}

InitEntity ==
    /\ safety_min_temp \in MinBounds
    /\ safety_max_temp \in MaxBounds
    /\ state = NoState
    /\ safety_active = FALSE
    /\ safety_triggered_mode = "None"
    /\ override_active = FALSE
    /\ override_until = NoneNum
    /\ runtime_data = <<>>
    /\ last_hvac_action = "None"
    /\ last_action_timestamp = NoneNum
    /\ clock = 0
    /\ op = NoOp
    /\ raised = "none"
    /\ result = NoneEvent
    /\ commands = <<>>
    /\ notifications = <<>>
    /\ discarded = <<>>
    /\ steps = <<>>
    /\ file = MissingFile
    /\ store_data = <<>>
    /\ logged = <<>>
    /\ observed = <<>>

InitGuard ==
    /\ InitEntity
    /\ definition = NoDefinition
    /\ schedule = ParseSchedule(definition)

GuardCheck(new_state) ==
    \E g \in {CheckSafetyTemp(new_state, safety_active, safety_triggered_mode,
                              safety_min_temp, safety_max_temp)} :
    /\ state' = new_state
    /\ safety_active' = g.safety_active
    /\ safety_triggered_mode' = g.safety_triggered_mode
    /\ notifications' = g.notifications
    /\ discarded' = g.discarded
    /\ commands' = <<>>
    /\ op' = Op("_async_check_safety_temp", NoneNum, NoneNum, "None")
    /\ raised' = "none"
    /\ UNCHANGED <<safety_min_temp, safety_max_temp, definition, schedule,
                   override_active, override_until, clock, result,
                   ledgerVars, steps, storeVars, observed>>

\* The guard reads the mode and the current temperature only.
GuardSnapshots ==
    {State(m, c, 200, "idle") : m \in HvacModes,
                                c \in (TempLo..TempHi) \cup {NoneNum}}

NextGuard == \E new_state \in GuardSnapshots : GuardCheck(new_state)

SpecGuard == InitGuard /\ [][NextGuard]_vars

(***************************************************************************)
(* SpecStore: a Store whose async_save and async_load are awaited in any   *)
(* order, on a file that can also be removed or damaged between them.      *)
(***************************************************************************)
\* date.isoformat() of the days of the model, the first a Monday.
IsoDates == <<"2024-01-01", "2024-01-02", "2024-01-03", "2024-01-04",
              "2024-01-05", "2024-01-06", "2024-01-07", "2024-01-08">>

Hours(heating_hours, cooling_hours) ==
    [heating_hours |-> heating_hours, cooling_hours |-> cooling_hours]

\* The totals of a day handed to async_save.
StoreTotals == {Hours(h, c) : h, c \in {0, MaxHours}}

\* The dicts handed to async_save: no day, one day, two days.
StoreLedgers(totals) ==
    {<<>>} \cup {IsoDates[1] :> t : t \in totals}
           \cup {IsoDates[1] :> t @@ IsoDates[2] :> u : t, u \in totals}

\* A failing write leaves nothing, one lexeme, half or all but one lexeme.
WriteOutcomes(data) ==
    LET n == Len(JsonDump(data)) IN
    {WriteOutcome("written", n), WriteOutcome("open_fails", 0)}
        \cup {WriteOutcome("write_fails", k) : k \in {0, 1, n \div 2, n - 1}}

InitStore ==
    /\ InitGuard
    /\ safety_min_temp = NoneNum
    /\ safety_max_temp = NoneNum

StoreSave(data, outcome) ==
    \E s \in {AsyncSave(data, file, outcome)} :
    /\ store_data' = s.data
    /\ file' = s.file
    /\ logged' = s.logged
    /\ raised' = s.raised
    /\ op' = Op("async_save", NoneNum, NoneNum, "None")
    /\ UNCHANGED <<safety_min_temp, safety_max_temp, state, safety_active,
                   safety_triggered_mode, definition, schedule,
                   override_active, override_until, clock, result, commands,
                   notifications, discarded, ledgerVars, steps, observed>>

StoreLoad ==
    \E l \in {AsyncLoad(file, store_data)} :
    /\ store_data' = l.data
    /\ logged' = l.logged
    /\ raised' = l.raised
    /\ op' = Op("async_load", NoneNum, NoneNum, "None")
    /\ UNCHANGED <<safety_min_temp, safety_max_temp, state, safety_active,
                   safety_triggered_mode, definition, schedule,
                   override_active, override_until, clock, result, commands,
                   notifications, discarded, ledgerVars, steps, file,
                   observed>>

\* The file system outside the Store: the file is removed.
FileRemoved ==
    /\ file.exists
    /\ file' = MissingFile
    /\ op' = Op("file_removed", NoneNum, NoneNum, "None")
    /\ raised' = "none"
    /\ UNCHANGED <<safety_min_temp, safety_max_temp, state, safety_active,
                   safety_triggered_mode, definition, schedule,
                   override_active, override_until, clock, result, commands,
                   notifications, discarded, ledgerVars, steps, store_data,
                   logged, observed>>

\* The file system outside the Store: the first or the last lexeme of the
\* file is overwritten with a byte that is not UTF-8.
FileDamaged(i) ==
    /\ file.exists
    /\ i \in 1..Len(file.text)
    /\ file.text[i] # BadByte
    /\ file' = FileOf([file.text EXCEPT ![i] = BadByte])
    /\ op' = Op("file_damaged", NoneNum, NoneNum, "None")
    /\ raised' = "none"
    /\ UNCHANGED <<safety_min_temp, safety_max_temp, state, safety_active,
                   safety_triggered_mode, definition, schedule,
                   override_active, override_until, clock, result, commands,
                   notifications, discarded, ledgerVars, steps, store_data,
                   logged, observed>>

NextStore ==
    \/ \E data \in StoreLedgers(StoreTotals) :
           \E outcome \in WriteOutcomes(data) : StoreSave(data, outcome)
    \/ StoreLoad
    \/ FileRemoved
    \/ \E i \in {1, Len(file.text)} : FileDamaged(i)

SpecStore == InitStore /\ [][NextStore]_vars

(***************************************************************************)
(* climate.py: the clock, the service handlers, the runtime ledger.        *)
(***************************************************************************)
\* datetime.now() as it would evaluate with the class datetime imported.
DatetimeNow_imported(wall) == [raised |-> "none", value |-> wall]

\* The expression datetime.now() in climate.py.  The module imports
\* timedelta from datetime and nothing else of it, so the name datetime is
\* unbound there and evaluating the expression raises NameError.
DatetimeNow(wall) == [raised |-> "NameError", value |-> NoneNum]

\* _get_next_schedule_time as it would return with datetime imported.
GetNextScheduleTime_imported(wall) ==
    [raised |-> "none", value |-> wall + HoursPerDay]

\* EnhancedThermostat._get_next_schedule_time
GetNextScheduleTime(wall) ==
    LET now == DatetimeNow(wall) IN
    IF now.raised # "none" THEN now
    ELSE [raised |-> "none", value |-> now.value + HoursPerDay]

\* The body of async_set_temperature / async_set_hvac_mode when awaited:
\* set_override(self._get_next_schedule_time()), then the service call.
AwaitServiceCall(call, wall, active, until) ==
    LET t == GetNextScheduleTime(wall) IN
    IF t.raised # "none"
    THEN [raised |-> t.raised, override_active |-> active,
          override_until |-> until, commands |-> <<>>]
    ELSE [raised |-> "none",
          override_active |-> SetOverrideFields(t.value).override_active,
          override_until |-> SetOverrideFields(t.value).override_until,
          commands |-> <<call>>]

AsyncSetTemperature(temperature, wall, active, until) ==
    AwaitServiceCall(ServiceCall("set_temperature", "None", temperature),
                     wall, active, until)

AsyncSetHvacMode(hvac_mode, wall, active, until) ==
    AwaitServiceCall(ServiceCall("set_hvac_mode", hvac_mode, NoneNum),
                     wall, active, until)

\* EnhancedThermostat._async_apply_schedule
ApplySchedule(now, wall, sched, active, until, st) ==
    LET r == GetCurrentSetpoint(sched, active, until, now)
        quiet == [raised |-> r.raised, result |-> r.result,
                  override_active |-> r.override_active,
                  override_until |-> r.override_until, commands |-> <<>>]
    IN
    IF r.raised # "none" \/ r.result = NoneEvent THEN quiet
    ELSE LET target_temp == r.result.temperature
             hvac_mode == r.result.hvac_mode
             wantMode == hvac_mode # "None" /\ hvac_mode # HvacMode(st)
             wantTemp == /\ target_temp # NoneNum /\ target_temp # 0
                         /\ target_temp # TargetTemperature(st)
             m == IF wantMode
                  THEN AsyncSetHvacMode(hvac_mode, wall, r.override_active,
                                        r.override_until)
                  ELSE [raised |-> "none",
                        override_active |-> r.override_active,
                        override_until |-> r.override_until,
                        commands |-> <<>>]
             t == IF m.raised = "none" /\ wantTemp
                  THEN AsyncSetTemperature(target_temp, wall, m.override_active,
                                           m.override_until)
                  ELSE [raised |-> m.raised,
                        override_active |-> m.override_active,
                        override_until |-> m.override_until,
                        commands |-> <<>>]
         IN [raised |-> t.raised, result |-> r.result,
             override_active |-> t.override_active,
             override_until |-> t.override_until,
             commands |-> m.commands \o t.commands]

NoHours == Hours(0, 0)

\* now.date().isoformat()
Today(now) == IsoDates[(now \div HoursPerDay) + 1]

\* EnhancedThermostat._async_update_runtime.  Store.async_save is a
\* coroutine function called without await: nothing is written.
UpdateRuntime(new_state, wall, data, last_action, last_timestamp) ==
    LET now == DatetimeNow(wall) IN
    IF now.raised # "none"
    THEN [raised |-> now.raised, runtime_data |-> data,
          last_hvac_action |-> last_action,
          last_action_timestamp |-> last_timestamp, discarded |-> <<>>]
    ELSE LET today == Today(now.value)
             changed == /\ last_action # "None" /\ last_timestamp # NoneNum
                        /\ new_state.hvac_action # last_action
             duration == now.value - last_timestamp
             base == IF today \in DOMAIN data THEN data
                     ELSE (today :> NoHours) @@ data
             added ==
                 IF last_action = "heating"
                 THEN [base EXCEPT ![today].heating_hours = @ + duration]
                 ELSE IF last_action = "cooling"
                 THEN [base EXCEPT ![today].cooling_hours = @ + duration]
                 ELSE base
         IN [raised |-> "none",
             runtime_data |-> IF changed THEN added ELSE data,
             last_hvac_action |-> new_state.hvac_action,
             last_action_timestamp |-> now.value,
             discarded |-> IF changed
                           THEN <<ServiceCall("async_save", "None", NoneNum)>>
                           ELSE <<>>]

(***************************************************************************)
(* Spec: the entity as Home Assistant drives it.                           *)
(***************************************************************************)
E0600Heat == Event(T0600, 200, "heat")

EntityDefinitions ==
    {NoDefinition,
     Yaml("monday" :> DayList(<<E0600Heat, E2200>>)
              @@ "tuesday" :> DayList(<<E6am>>))}

\* The snapshots the device reports in Spec: the extreme temperatures of
\* the range, or none.
EntitySnapshots ==
    {State(m, c, 200, a) : m \in HvacModes, c \in {TempLo, TempHi, NoneNum},
                           a \in {"idle", "heating"}}

\* Any configured bounds with the minimum below the maximum, any of the
\* entity's definitions.
Init ==
    /\ InitEntity
    /\ safety_max_temp # 145
    /\ definition \in EntityDefinitions
    /\ schedule = ParseSchedule(definition)

\* Time passes.
Advance ==
    /\ clock < MaxClock
    /\ clock' = clock + 1
    /\ op' = Op("advance", clock + 1, NoneNum, "None")
    /\ raised' = "none"
    /\ result' = NoneEvent
    /\ commands' = <<>>
    /\ notifications' = <<>>
    /\ discarded' = <<>>
    /\ steps' = <<>>
    /\ UNCHANGED <<safety_min_temp, safety_max_temp, state, safety_active,
                   safety_triggered_mode, definition, schedule,
                   override_active, override_until, ledgerVars, storeVars, observed>>

\* EnhancedThermostat._async_update_underlying_thermostat, for an event
\* that carries a new state, delivered at the instant wall.
DeviceUpdate(new_state, wall) ==
    \E u \in {UpdateRuntime(new_state, wall, runtime_data, last_hvac_action,
                             last_action_timestamp)},
       g \in {CheckSafetyTemp(new_state, safety_active, safety_triggered_mode,
                              safety_min_temp, safety_max_temp)} :
    LET done == u.raised = "none" IN
    /\ state' = new_state
    /\ runtime_data' = u.runtime_data
    /\ last_hvac_action' = u.last_hvac_action
    /\ last_action_timestamp' = u.last_action_timestamp
    /\ safety_active' = IF done THEN g.safety_active ELSE safety_active
    /\ safety_triggered_mode' =
           IF done THEN g.safety_triggered_mode ELSE safety_triggered_mode
    /\ notifications' = IF done THEN g.notifications ELSE <<>>
    /\ discarded' = IF done THEN u.discarded \o g.discarded ELSE u.discarded
    /\ steps' = IF done
                THEN <<"_async_update_runtime", "_async_check_safety_temp",
                       "async_write_ha_state">>
                ELSE <<>>
    /\ commands' = <<>>
    /\ raised' = u.raised
    /\ result' = NoneEvent
    /\ op' = Op("on_device_update", wall, NoneNum, "None")
    /\ UNCHANGED <<safety_min_temp, safety_max_temp, definition, schedule,
                   override_active, override_until, storeVars>>

OnDeviceUpdate(new_state) ==
    /\ DeviceUpdate(new_state, clock)
    /\ UNCHANGED <<clock, observed>>

\* The same callback for an event whose new_state is None: it returns at once.
OnDeviceRemoved ==
    /\ op' = Op("on_device_removed", clock, NoneNum, "None")
    /\ raised' = "none"
    /\ result' = NoneEvent
    /\ commands' = <<>>
    /\ notifications' = <<>>
    /\ discarded' = <<>>
    /\ steps' = <<>>
    /\ UNCHANGED <<safety_min_temp, safety_max_temp, state, safety_active,
                   safety_triggered_mode, definition, schedule,
                   override_active, override_until, clock, ledgerVars, storeVars, observed>>

\* A timer callback that also evaluates the guard on the stored snapshot.
OnTick_checks_safety ==
    \E a \in {ApplySchedule(clock, clock, schedule, override_active,
                             override_until, state)},
       g \in {CheckSafetyTemp(state, safety_active, safety_triggered_mode,
                              safety_min_temp, safety_max_temp)} :
    /\ override_active' = a.override_active
    /\ override_until' = a.override_until
    /\ commands' = a.commands
    /\ raised' = a.raised
    /\ result' = a.result
    /\ safety_active' = g.safety_active
    /\ safety_triggered_mode' = g.safety_triggered_mode
    /\ notifications' = g.notifications
    /\ discarded' = g.discarded
    /\ steps' = <<>>
    /\ op' = Op("on_tick", clock, NoneNum, "None")
    /\ UNCHANGED <<safety_min_temp, safety_max_temp, state, definition,
                   schedule, clock, ledgerVars, storeVars, observed>>

\* The timer: _async_apply_schedule(now).
OnTick ==
    \E a \in {ApplySchedule(clock, clock, schedule, override_active,
                             override_until, state)} :
    /\ override_active' = a.override_active
    /\ override_until' = a.override_until
    /\ commands' = a.commands
    /\ raised' = a.raised
    /\ result' = a.result
    /\ notifications' = <<>>
    /\ discarded' = <<>>
    /\ steps' = <<>>
    /\ op' = Op("on_tick", clock, NoneNum, "None")
    /\ UNCHANGED <<safety_min_temp, safety_max_temp, state, safety_active,
                   safety_triggered_mode, definition, schedule, clock,
                   ledgerVars, storeVars, observed>>

\* The climate.set_temperature service on this entity.
UserSetTemperature(temperature) ==
    \E a \in {AsyncSetTemperature(temperature, clock, override_active,
                                   override_until)} :
    /\ override_active' = a.override_active
    /\ override_until' = a.override_until
    /\ commands' = a.commands
    /\ raised' = a.raised
    /\ result' = NoneEvent
    /\ notifications' = <<>>
    /\ discarded' = <<>>
    /\ steps' = <<>>
    /\ op' = Op("set_temperature", clock, temperature, "None")
    /\ UNCHANGED <<safety_min_temp, safety_max_temp, state, safety_active,
                   safety_triggered_mode, definition, schedule, clock,
                   ledgerVars, storeVars, observed>>

\* The climate.set_hvac_mode service on this entity.
UserSetHvacMode(hvac_mode) ==
    \E a \in {AsyncSetHvacMode(hvac_mode, clock, override_active,
                                override_until)} :
    /\ override_active' = a.override_active
    /\ override_until' = a.override_until
    /\ commands' = a.commands
    /\ raised' = a.raised
    /\ result' = NoneEvent
    /\ notifications' = <<>>
    /\ discarded' = <<>>
    /\ steps' = <<>>
    /\ op' = Op("set_hvac_mode", clock, NoneNum, hvac_mode)
    /\ UNCHANGED <<safety_min_temp, safety_max_temp, state, safety_active,
                   safety_triggered_mode, definition, schedule, clock,
                   ledgerVars, storeVars, observed>>

Next ==
    \/ Advance
    \/ \E new_state \in EntitySnapshots : OnDeviceUpdate(new_state)
    \/ OnDeviceRemoved
    \/ OnTick
    \/ \E temperature \in {170, 200} : UserSetTemperature(temperature)
    \/ \E hvac_mode \in HvacModes : UserSetHvacMode(hvac_mode)

Spec == Init /\ [][Next]_vars

(***************************************************************************)
(* SpecLedger: the entity driven by state changes of the device alone,     *)
(* each some hours after the one before, with the log of what the device   *)
(* reported and when.                                                      *)
(***************************************************************************)
HvacActions == {"off", "idle", "heating", "cooling"}

\* The device is off and colder than the configured minimum throughout.
LedgerSnapshots == {State("off", TempLo, 200, a) : a \in HvacActions}

InitLedger ==
    /\ InitGuard
    /\ safety_min_temp = 150
    /\ safety_max_temp = NoneNum

Observation(at, new_state) == [at |-> at, hvac_action |-> new_state.hvac_action]

ObserveAfter(hours, new_state) ==
    /\ Len(observed) < MaxObserved
    /\ clock' = clock + hours
    /\ observed' = Append(observed, Observation(clock + hours, new_state))
    /\ DeviceUpdate(new_state, clock + hours)

NextLedger ==
    \E hours \in 0..MaxGap, new_state \in LedgerSnapshots :
        ObserveAfter(hours, new_state)

SpecLedger == InitLedger /\ [][NextLedger]_vars

(***************************************************************************)
(* Properties.                                                             *)
(***************************************************************************)
UpdateStep == op'.name \in {"_async_check_safety_temp", "on_device_update"}

Reports(st, hvac_mode) ==
    st.present /\ st.hvac_mode = hvac_mode /\ st.current_temperature # NoneNum

Issued(calls, call) == \E i \in 1..Len(calls) : calls[i] = call

\* C1: a device update that reports mode off and a temperature below the
\* configured minimum while the guard is Normal puts the guard in
\* SafetyOverride(heat) and issues set_hvac_mode(heat) and
\* set_temperature(minimum) to the device.
C1_HeatActivationCommands ==
    [][(/\ UpdateStep
        /\ ~safety_active
        /\ safety_min_temp # NoneNum
        /\ Reports(state', "off")
        /\ state'.current_temperature < safety_min_temp)
       => (/\ safety_active'
           /\ safety_triggered_mode' = "heat"
           /\ Issued(commands', ServiceCall("set_hvac_mode", "heat", NoneNum))
           /\ Issued(commands',
                     ServiceCall("set_temperature", "None", safety_min_temp)))]_vars

\* C2: from SafetyOverride(heat), a device update whose temperature is at
\* least the minimum plus 1.0 returns the guard to Normal and issues
\* set_hvac_mode(off) to the device.
C2_HeatRecoveryOffCommand ==
    [][(/\ UpdateStep
        /\ safety_active
        /\ safety_triggered_mode = "heat"
        /\ state'.present
        /\ state'.current_temperature # NoneNum
        /\ state'.current_temperature >= safety_min_temp + 10)
       => (/\ ~safety_active'
           /\ safety_triggered_mode' = "None"
           /\ Issued(commands', ServiceCall("set_hvac_mode", "off", NoneNum)))]_vars

\* C3: in SafetyOverride(heat) with the device reporting heat, a temperature
\* in [minimum, minimum + 1.0) changes nothing in the safety state and no
\* command is issued or prepared; likewise in SafetyOverride(cool) with the
\* device reporting cool and a temperature in (maximum - 1.0, maximum].
C3_DeadBandHolds ==
    [][(/\ UpdateStep
        /\ safety_active
        /\ \/ /\ safety_triggered_mode = "heat"
              /\ Reports(state', "heat")
              /\ state'.current_temperature >= safety_min_temp
              /\ state'.current_temperature < safety_min_temp + 10
           \/ /\ safety_triggered_mode = "cool"
              /\ Reports(state', "cool")
              /\ state'.current_temperature > safety_max_temp - 10
              /\ state'.current_temperature <= safety_max_temp)
       => (/\ safety_active'
           /\ safety_triggered_mode' = safety_triggered_mode
           /\ commands' = <<>>
           /\ discarded' = <<>>)]_vars

\* The guard held SafetyOverride(heat) through an update inside the dead band.
C3_Witness ==
    /\ op.name = "_async_check_safety_temp"
    /\ safety_active
    /\ safety_triggered_mode = "heat"
    /\ Reports(state, "heat")
    /\ state.current_temperature >= safety_min_temp
    /\ state.current_temperature < safety_min_temp + 10

\* C4: once in SafetyOverride(heat), while the device keeps reporting mode
\* off (the heat command did not arrive) and the temperature is below the
\* minimum plus 1.0, every update leaves the guard in SafetyOverride(heat)
\* and leaves the override window alone.
C4_IntentSurvivesUndeliveredCommand ==
    [][(/\ UpdateStep
        /\ safety_active
        /\ safety_triggered_mode = "heat"
        /\ Reports(state', "off")
        /\ state'.current_temperature < safety_min_temp + 10)
       => (/\ safety_active'
           /\ safety_triggered_mode' = "heat"
           /\ UNCHANGED <<override_active, override_until>>)]_vars

\* C5: from SafetyOverride(m), an update reporting a mode other than m, at
\* any reported temperature, returns the guard to Normal, passes the
\* manual-override message to the notifier and issues or prepares no
\* device command.
C5_ManualOverrideReleases ==
    [][(/\ UpdateStep
        /\ safety_active
        /\ state'.present
        /\ state'.current_temperature # NoneNum
        /\ state'.hvac_mode # safety_triggered_mode)
       => (/\ ~safety_active'
           /\ safety_triggered_mode' = "None"
           /\ notifications' = <<"manual_override">>
           /\ commands' = <<>>
           /\ discarded' = <<>>)]_vars

\* The guard was released by a manual mode change.
C5_Witness ==
    /\ op.name = "_async_check_safety_temp"
    /\ ~safety_active
    /\ safety_triggered_mode = "None"
    /\ notifications = <<"manual_override">>

\* C6: a device update that reports mode off and a temperature above the
\* configured maximum while the guard is Normal puts the guard in
\* SafetyOverride(cool) and issues set_hvac_mode(cool) and
\* set_temperature(maximum), whatever minimum is configured beside it.
C6_CoolActivationCommands ==
    [][(/\ UpdateStep
        /\ ~safety_active
        /\ safety_max_temp # NoneNum
        /\ Reports(state', "off")
        /\ state'.current_temperature > safety_max_temp)
       => (/\ safety_active'
           /\ safety_triggered_mode' = "cool"
           /\ Issued(commands', ServiceCall("set_hvac_mode", "cool", NoneNum))
           /\ Issued(commands',
                     ServiceCall("set_temperature", "None", safety_max_temp)))]_vars

\* C7: a user's set_temperature or set_hvac_mode at time t sets the override
\* window to t + 24h and forwards the command; and a tick before the
\* window's end issues no command.
C7_UserCommandSetsOverride ==
    [][/\ (op'.name = "set_temperature"
              => /\ override_active'
                 /\ override_until' = op'.now + 24
                 /\ commands' = <<ServiceCall("set_temperature", "None",
                                              op'.temperature)>>)
       /\ (op'.name = "set_hvac_mode"
              => /\ override_active'
                 /\ override_until' = op'.now + 24
                 /\ commands' = <<ServiceCall("set_hvac_mode", op'.hvac_mode,
                                              NoneNum)>>)
       /\ (/\ op'.name = "on_tick"
           /\ override_active
           /\ override_until # NoneNum
           /\ op'.now < override_until
              => commands' = <<>>)]_vars

\* C8: get_current_setpoint(now) while an override is active and now is
\* before its end returns None, without raising, for every installed
\* schedule and every now, and leaves the override window as it was.
C8_OverrideSuppressesSchedule ==
    [][(/\ op'.name = "get_current_setpoint"
        /\ override_active
        /\ override_until # NoneNum
        /\ op'.now < override_until)
       => (/\ result' = NoneEvent
           /\ raised' = "none"
           /\ UNCHANGED <<override_active, override_until>>)]_vars

\* An evaluation was suppressed at an instant for which the schedule holds
\* an applicable event.
C8_Witness ==
    /\ op.name = "get_current_setpoint"
    /\ override_active
    /\ op.now < override_until
    /\ result = NoneEvent
    /\ DayName(op.now) = "monday"
    /\ schedule.installed
    /\ "monday" \in DOMAIN schedule.days
    /\ schedule.days["monday"] = <<E2200, E0600>>
    /\ TimeOfDay(op.now) >= 360

\* The events of now's weekday in the installed schedule (none without a
\* schedule or without the weekday's key).
EventsOfDay(sched, now) ==
    IF sched.installed /\ DayName(now) \in DOMAIN sched.days
    THEN sched.days[DayName(now)]
    ELSE <<>>

WellFormedDay(events) == \A i \in 1..Len(events) : ParseTime(events[i].time).ok

Qualifying(events, now) ==
    {i \in 1..Len(events) : ParseTime(events[i].time).minutes <= TimeOfDay(now)}

\* C9: with no unexpired override, get_current_setpoint(now) on a schedule
\* whose events of now's weekday each carry an HH:MM time of day returns,
\* whatever the order they are listed in, an event of that weekday whose
\* time of day is the greatest not after now's; it returns None when the
\* weekday has no key or now is before every event of the day.
C9_LatestEventNotAfterNow ==
    [][(/\ op'.name = "get_current_setpoint"
        /\ ~(override_active /\ override_until # NoneNum
                /\ op'.now < override_until)
        /\ WellFormedDay(EventsOfDay(schedule, op'.now)))
       => LET events == EventsOfDay(schedule, op'.now)
              q == Qualifying(events, op'.now)
          IN /\ raised' = "none"
             /\ IF q = {} THEN result' = NoneEvent
                ELSE \E i \in q :
                        /\ result' = events[i]
                        /\ \A j \in q : ParseTime(events[j].time).minutes
                                          <= ParseTime(events[i].time).minutes]_vars

\* On a Monday listed as 22:00 then 06:00, an evaluation between the two
\* returned the 06:00 event.
C9_Witness ==
    /\ op.name = "get_current_setpoint"
    /\ schedule.installed
    /\ "monday" \in DOMAIN schedule.days
    /\ schedule.days["monday"] = <<E2200, E0600>>
    /\ DayName(op.now) = "monday"
    /\ result = E0600

\* The structural violations of a definition: the top level is no mapping,
\* a weekday's value is no sequence, an event is no mapping, an event has
\* no time field, an event's time is no HH:MM time.
StructurallyViolated(def) ==
    /\ def.text = "yaml"
    /\ \/ ~def.isDict
       \/ \E day \in DOMAIN def.days :
             \/ ~def.days[day].isList
             \/ \E i \in 1..Len(def.days[day].events) :
                   LET event == def.days[day].events[i] IN
                   \/ event.kind # "dict"
                   \/ ~event.hasTime
                   \/ ~ParseTime(event.time).ok

\* C10: a definition with any structural violation installs no schedule:
\* every later get_current_setpoint returns None and raises nothing.
C10_LoadIsAtomic ==
    (StructurallyViolated(definition) /\ op.name = "get_current_setpoint")
        => (result = NoneEvent /\ raised = "none")

(***************************************************************************)
(* Store.                                                                  *)
(***************************************************************************)
\* The file holds what some async_save writes when nothing fails.
Intact(f) ==
    f.exists /\ \E data \in StoreLedgers(StoreTotals) : f.text = JsonDump(data)

\* C14: async_load right after an async_save that logged no failure
\* returns the saved dict, with the same day keys and the same
\* heating_hours and cooling_hours under each; async_load on a missing
\* file or on a file that is not what a save writes returns {} and raises
\* nothing.
C14_RoundTripAndTolerantLoad ==
    [][(op'.name = "async_load")
       => /\ (op.name = "async_save" /\ logged = <<>>)
                 => (raised' = "none" /\ store_data' = store_data)
          /\ ~Intact(file) => (raised' = "none" /\ store_data' = <<>>)]_vars

(***************************************************************************)
(* The runtime ledger.                                                     *)
(***************************************************************************)
\* A step that delivers one more snapshot.
Observes == Len(observed') = Len(observed) + 1

Latest(log) == log[Len(log)]

\* The hours the ledger holds for a day under heating_hours or
\* cooling_hours, 0 for a day it has no key for.
HoursOn(data, day, field) == IF day \in DOMAIN data THEN data[day][field] ELSE 0

AllDays == {IsoDates[i] : i \in 1..Len(IsoDates)}

RECURSIVE SumHours(_, _, _)
SumHours(data, days, field) ==
    IF days = {} THEN 0
    ELSE LET day == CHOOSE d \in days : TRUE
         IN data[day][field] + SumHours(data, days \ {day}, field)

TotalHours(data, field) == SumHours(data, DOMAIN data, field)

\* C11: the first device update after startup sets the baseline to the
\* action the snapshot reports and to the instant of the update, adds
\* nothing to any entry of the ledger and creates no day key.
C11_FirstUpdateSetsBaselineOnly ==
    [][(observed = <<>> /\ Observes)
       => /\ runtime_data' = runtime_data
          /\ last_hvac_action' = Latest(observed').hvac_action
          /\ last_action_timestamp' = Latest(observed').at]_vars

\* The running hours of the day of now grow by elapsed under field, and the
\* hours under the other field stay as they are on every day.
Accrues(field, other, now, elapsed) ==
    /\ HoursOn(runtime_data', Today(now), field)
           = HoursOn(runtime_data, Today(now), field) + elapsed
    /\ \A day \in AllDays :
           HoursOn(runtime_data', day, other) = HoursOn(runtime_data, day, other)

\* C12: a device update that reports an action other than heating, D hours
\* after a snapshot that reported heating, adds exactly D to heating_hours
\* of the day of the update and changes cooling_hours of no day; the same
\* with cooling for heating; after a snapshot that reported idle or off no
\* total changes.
C12_TransitionAccruesElapsed ==
    [][(observed # <<>> /\ Observes)
       => LET was == Latest(observed).hvac_action
              is == Latest(observed').hvac_action
              now == Latest(observed').at
              D == now - Latest(observed).at
          IN /\ (was = "heating" /\ is # "heating")
                    => Accrues("heating_hours", "cooling_hours", now, D)
             /\ (was = "cooling" /\ is # "cooling")
                    => Accrues("cooling_hours", "heating_hours", now, D)
             /\ (was \in {"idle", "off"})
                    => \A day \in AllDays :
                           \A field \in {"heating_hours", "cooling_hours"} :
                               HoursOn(runtime_data', day, field)
                                   = HoursOn(runtime_data, day, field)]_vars

\* The hours between each snapshot of the log that starts a run of the
\* action and the first later snapshot that reports another action.
RECURSIVE RunHours(_, _, _, _)
RunHours(log, action, i, since) ==
    IF i > Len(log) THEN 0
    ELSE IF log[i].hvac_action = action
    THEN RunHours(log, action, i + 1, IF since = NoneNum THEN log[i].at ELSE since)
    ELSE (IF since = NoneNum THEN 0 ELSE log[i].at - since)
             + RunHours(log, action, i + 1, NoneNum)

\* C17: after any sequence of device updates, heating_hours summed over
\* the days equals the time between each snapshot that reported heating
\* and the next one that reported another action, several heating
\* snapshots in a row included; the same for cooling_hours and cooling.
C17_TotalsMatchObservedRuns ==
    /\ TotalHours(runtime_data, "heating_hours")
           = RunHours(observed, "heating", 1, NoneNum)
    /\ TotalHours(runtime_data, "cooling_hours")
           = RunHours(observed, "cooling", 1, NoneNum)

\* What the guard makes of the snapshot the step delivers.
GuardOn(new_state) ==
    CheckSafetyTemp(new_state, safety_active, safety_triggered_mode,
                    safety_min_temp, safety_max_temp)

\* C19: a device update that adds a delta to the ledger, and so saves it,
\* keeps the delta in self._runtime_data, evaluates the guard on the same
\* snapshot with the result the guard gives on it, and raises nothing,
\* whatever becomes of the save.
C19_SaveFailureIsolated ==
    [][(/\ observed # <<>> /\ Observes
        /\ Latest(observed).hvac_action \in {"heating", "cooling"}
        /\ Latest(observed').hvac_action # Latest(observed).hvac_action)
       => /\ raised' = "none"
          /\ Today(Latest(observed').at) \in DOMAIN runtime_data'
          /\ TotalHours(runtime_data', "heating_hours")
                 + TotalHours(runtime_data', "cooling_hours")
             = TotalHours(runtime_data, "heating_hours")
                 + TotalHours(runtime_data, "cooling_hours")
                 + (Latest(observed').at - Latest(observed).at)
          /\ safety_active' = GuardOn(state').safety_active
          /\ safety_triggered_mode' = GuardOn(state').safety_triggered_mode]_vars

\* C20: in one device update _async_update_runtime returns, with the
\* ledger and the baseline updated, before _async_check_safety_temp is
\* called, so what the guard emits comes after the ledger mutation.
C20_AccountingBeforeGuard ==
    [][Observes
       => /\ Len(steps') >= 2
          /\ steps'[1] = "_async_update_runtime"
          /\ steps'[2] = "_async_check_safety_temp"
          /\ last_hvac_action' = Latest(observed').hvac_action
          /\ last_action_timestamp' = Latest(observed').at]_vars

(***************************************************************************)
(* The handlers of one entity.                                             *)
(***************************************************************************)
\* The handlers that are coroutines.  Each awaits nothing but the service
\* calls it issues (lines 130, 140), so the awaits it reached are its
\* commands; the state-change callback is a plain function.
CoroutineHandlers == {"on_tick", "set_temperature", "set_hvac_mode"}

AwaitsReached == Len(commands)

ModeDiffers(setpoint, st) ==
    setpoint.hvac_mode # "None" /\ setpoint.hvac_mode # HvacMode(st)

TemperatureDiffers(setpoint, st) ==
    setpoint.temperature # NoneNum /\ setpoint.temperature # TargetTemperature(st)

\* C15: a timer callback for which the schedule returns a setpoint (no
\* override in force) issues set_hvac_mode when the setpoint's mode
\* differs from the device's, set_temperature when its temperature differs
\* from the device's target, and nothing when neither differs.
C15_TickIssuesScheduleCommands ==
    [][(op'.name = "on_tick" /\ result' # NoneEvent)
       => /\ ModeDiffers(result', state)
                 => Issued(commands',
                           ServiceCall("set_hvac_mode", result'.hvac_mode, NoneNum))
          /\ TemperatureDiffers(result', state)
                 => Issued(commands',
                           ServiceCall("set_temperature", "None",
                                       result'.temperature))
          /\ (~ModeDiffers(result', state) /\ ~TemperatureDiffers(result', state))
                 => commands' = <<>>]_vars

C18_TickLeavesGuardAndLedger ==
    [][(op'.name = "on_tick")
       => UNCHANGED <<safety_active, safety_triggered_mode, runtime_data,
                      last_hvac_action, last_action_timestamp>>]_vars

\* A timer callback has run while the device reports off and a
\* temperature below the configured minimum, the guard being Normal.
C18_Witness ==
    /\ op.name = "on_tick"
    /\ ~safety_active
    /\ safety_min_temp # NoneNum
    /\ Reports(state, "off")
    /\ state.current_temperature < safety_min_temp

(***************************************************************************)
(* The safety state.                                                       *)
(***************************************************************************)
SafetyStateWellFormed ==
    /\ safety_triggered_mode \in {"heat", "cool", "None"}
    /\ safety_active <=> safety_triggered_mode \in {"heat", "cool"}
    /\ safety_triggered_mode = "heat" => safety_min_temp # NoneNum
    /\ safety_triggered_mode = "cool" => safety_max_temp # NoneNum

\* The guard stays in the override it is in, or leaves it for Normal.
NoDirectSwitch ==
    (safety_active /\ safety_active')
        => safety_triggered_mode' = safety_triggered_mode

\* C21: in every reachable state _safety_active is true exactly when
\* _safety_triggered_mode is heat or cool (never off, heat_cool or None
\* while active, never a mode while inactive), heat implies a configured
\* minimum, cool a configured maximum, and no evaluation of the guard takes
\* it from the override of one mode straight to the override of the other.
C21_SafetyStateWellFormed ==
    []SafetyStateWellFormed /\ [][NoDirectSwitch]_vars

\* The guard is in SafetyOverride(cool) on an entity that has both bounds
\* configured, so an override of the other mode exists to switch to.
C21_Witness ==
    /\ op.name = "_async_check_safety_temp"
    /\ safety_active
    /\ safety_triggered_mode = "cool"
    /\ safety_min_temp # NoneNum
    /\ safety_max_temp # NoneNum

====
